---- MODULE Spec2Model ----
(***************************************************************************)
(* Model of codebeez/test-data-hackathon.                                  *)
(*                                                                         *)
(* Part 1 (Spec, SpecRepeat): src/dynamic_generation.py, the dependency    *)
(* ordered record generator: create_DAG, generate_model, get_mapper_f and  *)
(* the module-level run (lines 196-200).                                   *)
(* get_mapper_f alone, over columns of every name and type, is SpecMapper.  *)
(* Part 2 (SpecSeed): src/data_generator.py, the startup seeder            *)
(* generate_initial_data and its create_fake_* helpers, called by lifespan *)
(* of src/main.py.                                                         *)
(* Part 3 (SpecApi): the product and order endpoints of src/main.py with   *)
(* their Redis cache, requests interleaving at every await.                *)
(***************************************************************************)
EXTENDS Integers, Sequences, FiniteSets, TLC

\* ------------------------------------------------------------------ bounds
\* Number of models handed to create_DAG (all_models).
NumModels == 3
\* Total number of non-primary-key columns over all the models of a schema.
MaxColumns == 3
\* Records requested per model (the run asks for 100).
Amount == 2
\* Number of distinguishable values the faker provider can produce.
DomainSize == 1
\* Passes of the generate_model loop over sorted_models in one process
\* (SpecRepeat only; the module-level run makes one).
MaxPasses == 2
\* Largest count_users and count_products handed to generate_initial_data.
MaxCount == 2
\* Largest stock of a generated product (the seeder draws 0..200).
MaxStock == 2
\* Largest quantity of a generated order (the seeder draws 1..5).
MaxQuantity == 2
\* orders_per_user handed to create_fake_orders.
OrdersPerUser == 1
\* count_reviews_per_product as lifespan passes it.
count_reviews_per_product == 3
\* Requests the API receives in one behaviour; all may be in flight at once.
MaxRequests == 2
\* Largest price of a product.
MaxPrice == 2
MaxEmail == 3
MaxShipped == 1
MaxSequential == 3

\* ------------------------------------------------------------ the inputs
\* A model is identified by its table name; names are 1..NumModels.
Models == 1..NumModels
\* A table name that no supplied model carries.
UnknownName == 0
Names == Models \cup {UnknownName}
\* Values of the faker provider (every value column is an sa.String column,
\* so all of them use the provider method "words" and, when unique, share
\* one history of seen values).
Values == 1..DomainSize

\* The primary-key column every model declares first (models.py: id).
\* kind tells whether the column is the id, carries a ForeignKey (target is
\* the referenced table name) or is a plain value column.
IdColumn ==
    [kind |-> "pk", target |-> UnknownName, unique |-> FALSE, name |-> "id",
     type |-> "Integer", primary_key |-> TRUE, autoincrement |-> "True"]
\* The other columns: a foreign key to a table name (an Integer column), or
\* a value column (an sa.String column whose name matches no heuristic).
ColSpecs ==
    {[kind |-> "fk", target |-> t, unique |-> FALSE, name |-> "ref_id",
      type |-> "Integer", primary_key |-> FALSE, autoincrement |-> "auto"] :
        t \in Names}
      \cup {[kind |-> "val", target |-> UnknownName, unique |-> u, name |-> "name",
              type |-> "String", primary_key |-> FALSE, autoincrement |-> "auto"] :
                u \in BOOLEAN}

\* A schema lists its non-primary-key columns as (owner, column) pairs, the
\* owners in non-decreasing order.
ColumnLists ==
    UNION {[1..t -> Models \X ColSpecs] : t \in 0..MaxColumns}
OwnersSorted(cl) ==
    \A a, b \in 1..Len(cl) : a < b => cl[a][1] <= cl[b][1]
RECURSIVE ColumnsOf(_, _)
ColumnsOf(cl, m) ==
    IF cl = <<>> THEN <<>>
    ELSE IF Head(cl)[1] = m THEN <<Head(cl)[2]>> \o ColumnsOf(Tail(cl), m)
         ELSE ColumnsOf(Tail(cl), m)
\* model.__table__.columns of every model: id first, then the others.
Schemas ==
    {[m \in Models |-> <<IdColumn>> \o ColumnsOf(cl, m)] :
        cl \in {c \in ColumnLists : OwnersSorted(c)}}

\* all_models: the list handed to create_DAG.  Every foreign-key graph over
\* the names is enumerated, so listing the models in the order of their
\* names loses no case up to renaming.
AllModels == [k \in 1..NumModels |-> k]

VARIABLES
    columns,         \* the schema: model -> its table columns
    pc,              \* position of the module-level run
    error,           \* the exception that ended the run, "none" if none
    sorted_models,   \* result of create_DAG: Seq of [model, deps]
    dag_state,       \* the locals of create_DAG when it returned or raised
    cur,             \* index into sorted_models of the model being generated
    number,          \* loop variable i of generate_model
    seen,            \* fake.unique: the values handed out since the last clear
    created_models,  \* model -> list of created instances
    exhausted,       \* models whose batch stopped on a UniquenessException
    passes,          \* passes of the generate_model loop started so far
    persisted,       \* model -> rows committed to its table by this module
    \* --- data_generator.py
    db,              \* the committed rows of users, products, orders, reviews
    seed_pc,         \* position of generate_initial_data
    seed_error,      \* the exception generate_initial_data caught, or "none"
    count_users,     \* argument of generate_initial_data
    count_products,  \* argument of generate_initial_data
    users_list,      \* the list create_fake_users returned
    products_list,   \* the list create_fake_products returned
    lifespan_pc,     \* position of lifespan, the caller of generate_initial_data
    \* --- get_mapper_f on its own
    col,             \* the column handed to get_mapper_f
    map_number,      \* the record number i handed to get_mapper_f
    map_pc,          \* position in the else branch of generate_model's column loop
    faker_func,      \* what get_mapper_f returned
    data_value,      \* data[col.name]
    \* --- main.py
    cache,           \* the Redis keys product:{id} and all_products
    requests         \* the requests in flight: handler, arguments, locals

gvars == <<columns, pc, error, sorted_models, dag_state, cur, number, seen,
           created_models, exhausted, passes, persisted>>
svars == <<db, seed_pc, seed_error, count_users, count_products, users_list,
           products_list, lifespan_pc>>
mvars == <<col, map_number, map_pc, faker_func, data_value>>
avars == <<cache, requests>>
vars == <<gvars, svars, mvars, avars>>

\* ---------------------------------------------------------- create_DAG
\* dependent_on[model]: the (attr_name, dependency_name) pairs of a model;
\* the attribute name of a column is its position in the table.
RECURSIVE DepsFrom(_, _)
DepsFrom(cols, k) ==
    IF k > Len(cols) THEN <<>>
    ELSE IF cols[k].kind = "fk"
         THEN <<[attr |-> k, name |-> cols[k].target]>> \o DepsFrom(cols, k + 1)
         ELSE DepsFrom(cols, k + 1)
dependent_on(schema, model) == DepsFrom(schema[model], 1)

\* model_names: the table names of the supplied models.
model_names(models) == {models[k] : k \in 1..Len(models)}

\* The locals of create_DAG before the first visit.  stack is the chain of
\* dfs_visit calls in progress (the call stack), outermost first; err is the
\* name the exception carries.
DagStart ==
    [status |-> "ok", err |-> UnknownName, visited |-> {}, visiting |-> {},
     stack |-> <<>>, sorted_order |-> <<>>]

RECURSIVE dfs_visit(_, _, _, _)
RECURSIVE visit_deps(_, _, _, _, _)
RECURSIVE visit_depsSkipUnknown(_, _, _, _, _)
\* A dfs_visit that appends the model before it visits its dependencies.
dfs_visitPreOrder(schema, models, model, st) ==
    IF st.status # "ok" THEN st
    ELSE IF model \in st.visited THEN st
    ELSE IF model \in st.visiting
         THEN [st EXCEPT !.status = "circular", !.err = model]
    ELSE LET st1 == [st EXCEPT
                       !.visiting = @ \cup {model},
                       !.stack = Append(@, model),
                       !.sorted_order =
                           Append(@, [model |-> model,
                                      deps |-> dependent_on(schema, model)])]
             st2 == visit_deps(schema, models, dependent_on(schema, model), 1, st1)
         IN IF st2.status # "ok" THEN st2
            ELSE [st2 EXCEPT !.visiting = @ \ {model},
                             !.stack = SubSeq(@, 1, Len(@) - 1),
                             !.visited = @ \cup {model}]
\* A dfs_visit that returns, instead of raising, on a model in progress.
dfs_visitNoCycleCheck(schema, models, model, st) ==
    IF st.status # "ok" THEN st
    ELSE IF model \in st.visited \/ model \in st.visiting THEN st
    ELSE LET st1 == [st EXCEPT !.visiting = @ \cup {model},
                                 !.stack = Append(@, model)]
             st2 == visit_deps(schema, models, dependent_on(schema, model), 1, st1)
         IN IF st2.status # "ok" THEN st2
            ELSE [st2 EXCEPT
                    !.visiting = @ \ {model},
                    !.stack = SubSeq(@, 1, Len(@) - 1),
                    !.visited = @ \cup {model},
                    !.sorted_order =
                        Append(@, [model |-> model,
                                   deps |-> dependent_on(schema, model)])]
\* A dfs_visit whose circular error names the caller, the model whose
\* foreign key was being followed.
dfs_visitNamesCaller(schema, models, model, st) ==
    IF st.status # "ok" THEN st
    ELSE IF model \in st.visited THEN st
    ELSE IF model \in st.visiting
         THEN [st EXCEPT !.status = "circular", !.err = st.stack[Len(st.stack)]]
    ELSE LET st1 == [st EXCEPT !.visiting = @ \cup {model},
                                 !.stack = Append(@, model)]
             st2 == visit_deps(schema, models, dependent_on(schema, model), 1, st1)
         IN IF st2.status # "ok" THEN st2
            ELSE [st2 EXCEPT
                    !.visiting = @ \ {model},
                    !.stack = SubSeq(@, 1, Len(@) - 1),
                    !.visited = @ \cup {model},
                    !.sorted_order =
                        Append(@, [model |-> model,
                                   deps |-> dependent_on(schema, model)])]
\* dfs_visit of create_DAG; st carries visited, visiting, sorted_order, the
\* call stack and the exception raised so far.
dfs_visit(schema, models, model, st) ==
    IF st.status # "ok" THEN st
    ELSE IF model \in st.visited THEN st
    ELSE IF model \in st.visiting
         THEN [st EXCEPT !.status = "circular", !.err = model]
    ELSE LET st1 == [st EXCEPT !.visiting = @ \cup {model},
                                 !.stack = Append(@, model)]
             st2 == visit_deps(schema, models, dependent_on(schema, model), 1, st1)
         IN IF st2.status # "ok" THEN st2
            ELSE [st2 EXCEPT
                    !.visiting = @ \ {model},
                    !.stack = SubSeq(@, 1, Len(@) - 1),
                    !.visited = @ \cup {model},
                    !.sorted_order =
                        Append(@, [model |-> model,
                                   deps |-> dependent_on(schema, model)])]
\* A loop over the dependencies that skips the names it cannot resolve.
visit_depsSkipUnknown(schema, models, deps, k, st) ==
    IF st.status # "ok" \/ k > Len(deps) THEN st
    ELSE IF deps[k].name \notin model_names(models)
         THEN visit_depsSkipUnknown(schema, models, deps, k + 1, st)
    ELSE visit_depsSkipUnknown(schema, models, deps, k + 1,
                               dfs_visit(schema, models, deps[k].name, st))
\* the loop over dependent_on.get(model, []) inside dfs_visit
visit_deps(schema, models, deps, k, st) ==
    IF st.status # "ok" \/ k > Len(deps) THEN st
    ELSE IF deps[k].name \notin model_names(models)
         THEN [st EXCEPT !.status = "keyerror", !.err = deps[k].name]
    ELSE visit_deps(schema, models, deps, k + 1,
                    dfs_visit(schema, models, deps[k].name, st))

RECURSIVE visit_all(_, _, _, _)
\* A final loop that starts a visit only from the first model of the list.
visit_allFirstOnly(schema, models, k, st) ==
    IF st.status # "ok" \/ k > 1 THEN st
    ELSE dfs_visit(schema, models, models[k], st)
\* the final loop of create_DAG over the input list
visit_all(schema, models, k, st) ==
    IF st.status # "ok" \/ k > Len(models) THEN st
    ELSE visit_all(schema, models, k + 1,
                   IF models[k] \in st.visited THEN st
                   ELSE dfs_visit(schema, models, models[k], st))

create_DAG(schema, models) == visit_all(schema, models, 1, DagStart)

\* ------------------------------------------------------- get_mapper_f
\* faker_mapper: type(col.type) -> (method_name, kwargs); the keyword
\* arguments are a set of (keyword, value) pairs.
faker_mapper ==
    [t \in {"String", "Text", "Integer", "BigInteger", "SmallInteger", "Float",
            "Numeric", "Date", "DateTime", "Time", "Boolean", "UUID"} |->
        CASE t = "String" -> [method_name |-> "words", kwargs |-> {}]
          [] t = "Text" -> [method_name |-> "paragraph",
                            kwargs |-> {<<"nb_sentences", 3>>}]
          [] t = "Integer" -> [method_name |-> "random_int",
                               kwargs |-> {<<"min", 1>>, <<"max", 10000>>}]
          [] t = "BigInteger" -> [method_name |-> "random_int",
                                  kwargs |-> {<<"min", 100000>>, <<"max", 999999999>>}]
          [] t = "SmallInteger" -> [method_name |-> "random_int",
                                    kwargs |-> {<<"min", 1>>, <<"max", 100>>}]
          [] t = "Float" -> [method_name |-> "pyfloat", kwargs |-> {}]
          [] t = "Numeric" -> [method_name |-> "pydecimal",
                               kwargs |-> {<<"left_digits", 5>>, <<"right_digits", 2>>,
                                           <<"positive", TRUE>>}]
          [] t = "Date" -> [method_name |-> "date_object", kwargs |-> {}]
          [] t = "DateTime" -> [method_name |-> "date_time_this_decade",
                                kwargs |-> {}]
          [] t = "Time" -> [method_name |-> "time_object", kwargs |-> {}]
          [] t = "Boolean" -> [method_name |-> "boolean", kwargs |-> {}]
          [] t = "UUID" -> [method_name |-> "uuid4", kwargs |-> {}]]

\* str.lower() on the letters of a column name
UpperLetters == "ABCDEFGHIJKLMNOPQRSTUVWXYZ"
LowerLetters == "abcdefghijklmnopqrstuvwxyz"
LowerChar(c) ==
    IF \E k \in 1..Len(UpperLetters) : SubSeq(UpperLetters, k, k) = c
    THEN LET k == CHOOSE j \in 1..Len(UpperLetters) : SubSeq(UpperLetters, j, j) = c
         IN SubSeq(LowerLetters, k, k)
    ELSE c
RECURSIVE lower(_)
lower(str) ==
    IF Len(str) = 0 THEN ""
    ELSE LowerChar(SubSeq(str, 1, 1)) \o lower(SubSeq(str, 2, Len(str)))
\* sub in str
Contains(sub, str) ==
    \E k \in 0..(Len(str) - Len(sub)) : SubSeq(str, k + 1, k + Len(sub)) = sub

\* What get_mapper_f can return: lambda: number, a provider method (with
\* the keyword arguments it is called with), or None.
NumberFunc(n) ==
    [kind |-> "number", number |-> n, unique |-> FALSE, method |-> "lambda",
     kwargs |-> {}]
ProviderFunc(column, n, method_name, kwargs) ==
    [kind |-> "faker", number |-> n, unique |-> column.unique,
     method |-> method_name, kwargs |-> kwargs]
NoFunc(n) ==
    [kind |-> "none", number |-> n, unique |-> FALSE, method |-> "None",
     kwargs |-> {}]

\* A get_mapper_f that tries the name heuristics and the type table before
\* the primary-key test.
get_mapper_fNamesFirst(column, n) ==
    LET col_name == lower(column.name)
    IN IF Contains("email", col_name) THEN ProviderFunc(column, n, "email", {})
       ELSE IF Contains("user_name", col_name) \/ Contains("username", col_name)
       THEN ProviderFunc(column, n, "user_name", {})
       ELSE IF Contains("full_name", col_name)
       THEN ProviderFunc(column, n, "name", {})
       ELSE IF Contains("phone", col_name)
       THEN ProviderFunc(column, n, "phone_number", {})
       ELSE IF column.type \in DOMAIN faker_mapper
       THEN ProviderFunc(column, n, faker_mapper[column.type].method_name,
                         faker_mapper[column.type].kwargs)
       ELSE IF column.primary_key \/ column.autoincrement = "True"
       THEN NumberFunc(n)
       ELSE NoFunc(n)
\* A get_mapper_f that tests for a phone column before a user-name column
\* and matches the name as it is written.
get_mapper_fPhoneFirst(column, n) ==
    IF column.primary_key \/ column.autoincrement = "True" THEN NumberFunc(n)
    ELSE LET col_name == column.name
         IN IF Contains("email", col_name)
            THEN ProviderFunc(column, n, "email", {})
            ELSE IF Contains("phone", col_name)
            THEN ProviderFunc(column, n, "phone_number", {})
            ELSE IF Contains("user_name", col_name) \/ Contains("username", col_name)
            THEN ProviderFunc(column, n, "user_name", {})
            ELSE IF Contains("full_name", col_name)
            THEN ProviderFunc(column, n, "name", {})
            ELSE IF column.type \in DOMAIN faker_mapper
            THEN ProviderFunc(column, n, faker_mapper[column.type].method_name,
                              faker_mapper[column.type].kwargs)
            ELSE NoFunc(n)
\* get_mapper_f(col, number): the record number for a primary key or an
\* autoincrement column, else the provider method the column name selects,
\* else the one the column type selects, else None.
get_mapper_f(column, n) ==
    IF column.primary_key \/ column.autoincrement = "True" THEN NumberFunc(n)
    ELSE LET col_name == lower(column.name)
         IN IF Contains("email", col_name)
            THEN ProviderFunc(column, n, "email", {})
            ELSE IF Contains("user_name", col_name) \/ Contains("username", col_name)
            THEN ProviderFunc(column, n, "user_name", {})
            ELSE IF Contains("full_name", col_name)
            THEN ProviderFunc(column, n, "name", {})
            ELSE IF Contains("phone", col_name)
            THEN ProviderFunc(column, n, "phone_number", {})
            ELSE IF column.type \in DOMAIN faker_mapper
            THEN ProviderFunc(column, n, faker_mapper[column.type].method_name,
                              faker_mapper[column.type].kwargs)
            ELSE NoFunc(n)

\* The attribute of an instance built without a value for the column.
Null == "null"

\* ------------------------------------------------------ generate_model
\* A foreign-key value that is the position of the chosen instance in the
\* list instead of the instance's id.
PickReferenceIndex(pool, dependent_model, random_index) ==
    random_index
\* created_models[dependent_model][random_index].id
PickReference(pool, dependent_model, random_index) ==
    pool[dependent_model][random_index][1]

\* dependencies_mapping[col.name] for the column at position k
DependencyOf(deps, k) ==
    (CHOOSE d \in {deps[j] : j \in 1..Len(deps)} : d.attr = k).name

\* One pass of the loop over model.__table__.columns for record i, from
\* column k on: the set of possible results.  result is "ok" (all columns
\* filled), "unique" (UniquenessException) or "valueerror" (random.randint
\* over an empty range).
RECURSIVE FillColumns(_, _, _, _, _, _, _)
FillColumns(cols, deps, pool, i, k, data, sn) ==
    IF k > Len(cols) THEN {[result |-> "ok", data |-> data, seen |-> sn]}
    ELSE IF \E d \in 1..Len(deps) : deps[d].attr = k
    THEN LET dependent_model == DependencyOf(deps, k)
             n == Len(pool[dependent_model])
         IN IF n = 0
            THEN {[result |-> "valueerror", data |-> data, seen |-> sn]}
            ELSE UNION {FillColumns(cols, deps, pool, i, k + 1,
                                    Append(data, PickReference(pool, dependent_model,
                                                               random_index)),
                                    sn) : random_index \in 1..n}
    ELSE LET f == get_mapper_f(cols[k], i)
         IN IF f.kind = "number"
            THEN FillColumns(cols, deps, pool, i, k + 1, Append(data, f.number), sn)
            ELSE IF f.kind = "none"
            THEN FillColumns(cols, deps, pool, i, k + 1, Append(data, Null), sn)
            ELSE IF f.unique
            THEN IF Values \subseteq sn
                 THEN {[result |-> "unique", data |-> data, seen |-> sn]}
                 ELSE UNION {FillColumns(cols, deps, pool, i, k + 1,
                                         Append(data, v), sn \cup {v}) :
                                v \in Values \ sn}
            ELSE UNION {FillColumns(cols, deps, pool, i, k + 1,
                                    Append(data, v), sn) : v \in Values}

\* generate_initial_data is not running (the generator module is run as a
\* script of its own).
SeedIdle ==
    /\ db = [users |-> <<>>, products |-> <<>>, orders |-> <<>>, reviews |-> <<>>]
    /\ seed_pc = "idle"
    /\ lifespan_pc = "idle"
    /\ seed_error = "none"
    /\ count_users = 0
    /\ count_products = 0
    /\ users_list = <<>>
    /\ products_list = <<>>

\* The generator module is not running.
GeneratorIdle ==
    /\ columns = [m \in Models |-> <<IdColumn>>]
    /\ pc = "idle"
    /\ error = "none"
    /\ sorted_models = <<>>
    /\ dag_state = DagStart
    /\ cur = 0
    /\ number = 0
    /\ seen = {}
    /\ created_models = [m \in Models |-> <<>>]
    /\ exhausted = {}
    /\ passes = 1
    /\ persisted = [m \in Models |-> {}]

\* get_mapper_f is not being looked at on its own.
MapperIdle ==
    /\ col = IdColumn
    /\ map_number = 0
    /\ map_pc = "idle"
    /\ faker_func = NoFunc(0)
    /\ data_value = Null
\* The API is not serving.
ApiIdle ==
    /\ cache = <<>>
    /\ requests = <<>>

Init ==
    /\ columns \in Schemas
    /\ pc = "start"
    /\ error = "none"
    /\ sorted_models = <<>>
    /\ dag_state = DagStart
    /\ cur = 0
    /\ number = 0
    /\ seen = {}
    /\ created_models = [m \in Models |-> <<>>]
    /\ exhausted = {}
    /\ passes = 1
    /\ persisted = [m \in Models |-> {}]
    /\ SeedIdle
    /\ MapperIdle
    /\ ApiIdle

\* sorted_models = create_DAG(all_models)
CreateDAG ==
    /\ pc = "start"
    /\ LET r == create_DAG(columns, AllModels)
       IN /\ dag_state' = r
          /\ IF r.status = "ok"
             THEN /\ sorted_models' = r.sorted_order
                  /\ pc' = "loop"
                  /\ cur' = 1
                  /\ error' = error
             ELSE /\ error' = r.status
                  /\ pc' = "failed"
                  /\ UNCHANGED <<sorted_models, cur>>
    /\ UNCHANGED <<columns, number, seen, created_models, exhausted, passes,
                   persisted>>
    /\ UNCHANGED <<svars, mvars, avars>>

\* generate_model(model, 100), entry: fake.unique.clear()
GenerateModel ==
    /\ pc = "loop"
    /\ cur <= Len(sorted_models)
    /\ pc' = "batch"
    /\ seen' = {}
    /\ number' = 0
    /\ UNCHANGED <<columns, dag_state, error, sorted_models, cur, created_models, exhausted,
                   passes, persisted>>
    /\ UNCHANGED <<svars, mvars, avars>>

\* An end of the iteration in which the UniquenessException is not caught.
EndRecordUncaught(model, o) ==
    \/ /\ o.result = "ok"
       /\ created_models' = [created_models EXCEPT ![model] = Append(@, o.data)]
       /\ seen' = o.seen
       /\ number' = number + 1
       /\ UNCHANGED <<pc, error, cur, exhausted>>
    \/ /\ o.result = "unique"
       /\ seen' = o.seen
       /\ exhausted' = exhausted \cup {model}
       /\ error' = "unique"
       /\ pc' = "failed"
       /\ UNCHANGED <<cur, number, created_models>>
    \/ /\ o.result = "valueerror"
       /\ error' = "valueerror"
       /\ pc' = "failed"
       /\ seen' = o.seen
       /\ UNCHANGED <<cur, number, created_models, exhausted>>
\* How an iteration ends: the instance is built and appended to
\* created_models[model]; or the UniquenessException is caught and
\* generate_model returns; or the ValueError of random.randint leaves
\* generate_model and the module-level loop.
EndRecord(model, o) ==
    \/ /\ o.result = "ok"
       /\ created_models' = [created_models EXCEPT ![model] = Append(@, o.data)]
       /\ seen' = o.seen
       /\ number' = number + 1
       /\ UNCHANGED <<pc, error, cur, exhausted>>
    \/ /\ o.result = "unique"
       /\ seen' = o.seen
       /\ exhausted' = exhausted \cup {model}
       /\ pc' = "loop"
       /\ cur' = cur + 1
       /\ UNCHANGED <<error, number, created_models>>
    \/ /\ o.result = "valueerror"
       /\ error' = "valueerror"
       /\ pc' = "failed"
       /\ seen' = o.seen
       /\ UNCHANGED <<cur, number, created_models, exhausted>>

\* one iteration of "for i in range(amount)"
GenerateRecord ==
    /\ pc = "batch"
    /\ number < Amount
    /\ LET model == sorted_models[cur].model
       IN \E o \in FillColumns(columns[model], sorted_models[cur].deps,
                               created_models, number, 1, <<>>, seen) :
            EndRecord(model, o)
    /\ UNCHANGED <<columns, dag_state, sorted_models, passes, persisted>>
    /\ UNCHANGED <<svars, mvars, avars>>

\* the loop of generate_model ends after amount records
GenerateModelReturn ==
    /\ pc = "batch"
    /\ number = Amount
    /\ pc' = "loop"
    /\ cur' = cur + 1
    /\ UNCHANGED <<columns, dag_state, error, sorted_models, number, seen, created_models,
                   exhausted, passes, persisted>>
    /\ UNCHANGED <<svars, mvars, avars>>

\* print(created_models): the run is over
Finish ==
    /\ pc = "loop"
    /\ cur > Len(sorted_models)
    /\ pc' = "done"
    /\ UNCHANGED <<columns, dag_state, error, sorted_models, cur, number, seen,
                   created_models, exhausted, passes, persisted>>
    /\ UNCHANGED <<svars, mvars, avars>>

Next ==
    \/ CreateDAG
    \/ GenerateModel
    \/ GenerateRecord
    \/ GenerateModelReturn
    \/ Finish

Spec == Init /\ [][Next]_vars

\* A caller that runs the loop "for model in sorted_models: generate_model"
\* again, from some position on, in the same process: created_models is a
\* module global and is not reset between calls.
Regenerate ==
    /\ pc = "done"
    /\ passes < MaxPasses
    /\ \E k \in 1..Len(sorted_models) : cur' = k
    /\ pc' = "loop"
    /\ passes' = passes + 1
    /\ UNCHANGED <<columns, dag_state, error, sorted_models, number, seen, created_models,
                   exhausted, persisted>>
    /\ UNCHANGED <<svars, mvars, avars>>

NextRepeat ==
    \/ CreateDAG
    \/ GenerateModel
    \/ GenerateRecord
    \/ GenerateModelReturn
    \/ Finish
    \/ Regenerate

SpecRepeat == Init /\ [][NextRepeat]_vars

\* ================================================ get_mapper_f on its own
\* Column names, each with the name rule that is to win for it: 1 email,
\* 2 user_name or username, 3 full_name, 4 phone, 0 none.
NameCases ==
    {[name |-> "email", rule |-> 1], [name |-> "Email_Address", rule |-> 1],
     [name |-> "username_email", rule |-> 1], [name |-> "phone_EMAIL", rule |-> 1],
     [name |-> "user_name", rule |-> 2], [name |-> "UserName", rule |-> 2],
     [name |-> "phone_username", rule |-> 2],
     [name |-> "full_name", rule |-> 3], [name |-> "Full_Name_Phone", rule |-> 3],
     [name |-> "phone", rule |-> 4], [name |-> "TELEPHONE", rule |-> 4],
     [name |-> "name", rule |-> 0], [name |-> "fullname", rule |-> 0],
     [name |-> "user", rule |-> 0]}
\* Column types: the keys of faker_mapper, a type that has no entry and a
\* subclass of a type that has one (type(col.type) is compared exactly).
ColumnTypes == DOMAIN faker_mapper \cup {"LargeBinary", "VARCHAR"}
MapperColumns ==
    {[kind |-> "val", target |-> UnknownName, unique |-> u, name |-> c.name,
      type |-> t, primary_key |-> pk, autoincrement |-> a] :
        u \in BOOLEAN, c \in NameCases, t \in ColumnTypes, pk \in BOOLEAN,
        a \in {"True", "False", "auto"}}

\* The else branch of generate_model's column loop is about to handle the
\* column col of record map_number.
MapperInit ==
    /\ GeneratorIdle
    /\ SeedIdle
    /\ ApiIdle
    /\ col \in MapperColumns
    /\ map_number \in 0..(Amount - 1)
    /\ map_pc = "column"
    /\ faker_func = NoFunc(0)
    /\ data_value = Null

\* faker_func(): the record number, or a value of the provider method.
CallFunc(f, v) ==
    IF f.kind = "number" THEN f.number ELSE [method |-> f.method, value |-> v]

\* faker_func = get_mapper_f(col, i)
GetMapper ==
    /\ map_pc = "column"
    /\ faker_func' = get_mapper_f(col, map_number)
    /\ map_pc' = "mapped"
    /\ UNCHANGED <<col, map_number, data_value>>
    /\ UNCHANGED <<gvars, svars, avars>>

\* if faker_func: data[col.name] = faker_func()
SetData ==
    /\ map_pc = "mapped"
    /\ faker_func.kind # "none"
    /\ \E v \in Values : data_value' = CallFunc(faker_func, v)
    /\ map_pc' = "set"
    /\ UNCHANGED <<col, map_number, faker_func>>
    /\ UNCHANGED <<gvars, svars, avars>>

\* faker_func is None: the column gets no entry in data
SkipData ==
    /\ map_pc = "mapped"
    /\ faker_func.kind = "none"
    /\ map_pc' = "omitted"
    /\ UNCHANGED <<col, map_number, faker_func, data_value>>
    /\ UNCHANGED <<gvars, svars, avars>>

NextMapper ==
    \/ GetMapper
    \/ SetData
    \/ SkipData

SpecMapper == MapperInit /\ [][NextMapper]_vars

\* =================================================== data_generator.py
Min(a, b) == IF a < b THEN a ELSE b
\* Sequences without repetition, of length n, over the set s.
Injective(s, n) ==
    {f \in [1..n -> s] : \A a, b \in 1..n : a # b => f[a] # f[b]}
\* The addresses fake.unique.email() can return.
Emails == 1..MaxCount
\* The store assigns the next serial ids to the rows of a committed batch.
RECURSIVE WithIds(_, _)
WithIds(rows, last) ==
    IF rows = <<>> THEN <<>>
    ELSE <<[Head(rows) EXCEPT !.id = last + 1]>> \o WithIds(Tail(rows), last + 1)

\* The table a run of generate_initial_data may find: empty, or holding
\* one row written earlier (by a previous startup or through the API).
SeedInit ==
    /\ GeneratorIdle
    /\ MapperIdle
    /\ ApiIdle
    /\ lifespan_pc = "populating"
    /\ \E u \in {<<>>, <<[id |-> 1, email |-> 1]>>},
          p \in {<<>>, <<[id |-> 1, stock |-> 1]>>} :
         db = [users |-> u, products |-> p, orders |-> <<>>, reviews |-> <<>>]
    /\ seed_pc = "check"
    /\ seed_error = "none"
    /\ count_users \in 0..MaxCount
    /\ count_products \in 0..MaxCount
    /\ users_list = <<>>
    /\ products_list = <<>>

\* An exception inside the try block: rollback, print, return.
Caught(e) ==
    /\ seed_pc' = "caught"
    /\ seed_error' = e
    /\ UNCHANGED <<db, count_users, count_products, users_list, products_list>>

\* generate_initial_data, lines 152-161: skip when a user row exists
CheckExisting ==
    /\ seed_pc = "check"
    /\ seed_pc' = IF db.users # <<>> THEN "skipped" ELSE "users"
    /\ UNCHANGED <<db, seed_error, count_users, count_products, users_list,
                   products_list>>
    /\ UNCHANGED <<gvars, mvars, avars, lifespan_pc>>

\* the loop of create_fake_users: the users added to the session
RECURSIVE NewUsers(_, _, _)
NewUsers(emails, k, present) ==
    IF k > Len(emails) THEN <<>>
    ELSE IF emails[k] \in present THEN NewUsers(emails, k + 1, present)
    ELSE <<[id |-> 0, email |-> emails[k]]>>
            \o NewUsers(emails, k + 1, present \cup {emails[k]})

\* users_list = await create_fake_users(async_session, count_users)
create_fake_users ==
    /\ seed_pc = "users"
    /\ \E emails \in Injective(Emails, count_users) :
         LET present == {db.users[j].email : j \in 1..Len(db.users)}
             users == WithIds(NewUsers(emails, 1, present), Len(db.users))
         IN \/ /\ db' = [db EXCEPT !.users = @ \o users]
               /\ users_list' = users
               /\ seed_pc' = "products"
               /\ UNCHANGED <<seed_error, count_users, count_products, products_list>>
            \/ Caught("commit")
    /\ UNCHANGED <<gvars, mvars, avars, lifespan_pc>>

\* products_list = await create_fake_products(async_session, count_products)
create_fake_products ==
    /\ seed_pc = "products"
    /\ \E stocks \in [1..count_products -> 0..MaxStock] :
         LET products == WithIds([k \in 1..count_products |->
                                    [id |-> 0, stock |-> stocks[k]]],
                                 Len(db.products))
         IN \/ /\ db' = [db EXCEPT !.products = @ \o products]
               /\ products_list' = products
               /\ seed_pc' = "orders"
               /\ UNCHANGED <<seed_error, count_users, count_products, users_list>>
            \/ Caught("commit")
    /\ UNCHANGED <<gvars, mvars, avars, lifespan_pc>>

\* The inner loop of create_fake_orders for one user: n draws of a product
\* and a quantity; a draw the stock cannot cover is skipped.
RECURSIVE OrderAttempts(_, _, _, _)
OrderAttempts(user, n, products, orders) ==
    IF n = 0 THEN {[products |-> products, orders |-> orders]}
    ELSE UNION {
        IF products[p].stock < quantity
        THEN OrderAttempts(user, n - 1, products, orders)
        ELSE OrderAttempts(user, n - 1,
                           [products EXCEPT ![p].stock = @ - quantity],
                           Append(orders, [id |-> 0, user_id |-> user.id,
                                           product_id |-> products[p].id,
                                           quantity |-> quantity])) :
        p \in 1..Len(products), quantity \in 1..MaxQuantity}
\* The outer loop of create_fake_orders over the users.
RECURSIVE OrdersFor(_, _, _, _)
OrdersFor(users, k, products, orders) ==
    IF k > Len(users) THEN {[products |-> products, orders |-> orders]}
    ELSE UNION {
        UNION {OrdersFor(users, k + 1, r.products, r.orders) :
                 r \in OrderAttempts(users[k], num_orders, products, orders)} :
        num_orders \in 1..OrdersPerUser}

\* The committed products with the stock of the session's product objects.
StockWritten(table, products) ==
    [j \in 1..Len(table) |->
        IF \E p \in 1..Len(products) : products[p].id = table[j].id
        THEN CHOOSE x \in {products[p] : p \in 1..Len(products)} : x.id = table[j].id
        ELSE table[j]]

\* await create_fake_orders(async_session, users_list, products_list, ...)
create_fake_orders ==
    /\ seed_pc = "orders"
    /\ IF users_list = <<>> \/ products_list = <<>>
       THEN /\ seed_pc' = "reviews"
            /\ UNCHANGED <<db, seed_error, count_users, count_products,
                           users_list, products_list>>
       ELSE \E r \in OrdersFor(users_list, 1, products_list, <<>>) :
              \/ /\ db' = [db EXCEPT
                             !.orders = @ \o WithIds(r.orders, Len(db.orders)),
                             !.products = StockWritten(@, r.products)]
                 /\ products_list' = r.products
                 /\ seed_pc' = "reviews"
                 /\ UNCHANGED <<seed_error, count_users, count_products, users_list>>
              \/ Caught("commit")
    /\ UNCHANGED <<gvars, mvars, avars, lifespan_pc>>

\* The loop over the reviewers of one product: a user who already reviewed
\* the product is skipped.
RECURSIVE AddReviews(_, _, _, _, _)
AddReviews(users, product, reviewers, j, reviews) ==
    IF j > Len(reviewers) THEN reviews
    ELSE LET user_obj == users[reviewers[j]]
         IN IF \E x \in 1..Len(reviews) :
                  /\ reviews[x].user_id = user_obj.id
                  /\ reviews[x].product_id = product.id
            THEN AddReviews(users, product, reviewers, j + 1, reviews)
            ELSE AddReviews(users, product, reviewers, j + 1,
                            Append(reviews, [id |-> 0, user_id |-> user_obj.id,
                                             product_id |-> product.id]))
\* The loop of create_fake_reviews over the products: every product gets a
\* random sample of the users as reviewers.  reviews holds the committed
\* rows followed by the rows added so far.
RECURSIVE ReviewsFor(_, _, _, _)
ReviewsFor(users, products, k, reviews) ==
    IF k > Len(products) THEN {reviews}
    ELSE UNION {
        UNION {ReviewsFor(users, products, k + 1,
                          AddReviews(users, products[k], reviewers, 1, reviews)) :
                 reviewers \in Injective(1..Len(users), Min(Len(users), size))} :
        size \in 1..(count_reviews_per_product + 2)}

\* await create_fake_reviews(async_session, users_list, products_list, ...)
create_fake_reviews ==
    /\ seed_pc = "reviews"
    /\ IF users_list = <<>> \/ products_list = <<>>
       THEN /\ seed_pc' = "completed"
            /\ UNCHANGED <<db, seed_error, count_users, count_products,
                           users_list, products_list>>
       ELSE \E reviews \in ReviewsFor(users_list, products_list, 1, db.reviews) :
              \/ /\ db' = [db EXCEPT
                             !.reviews = @ \o WithIds(SubSeq(reviews, Len(@) + 1,
                                                             Len(reviews)), Len(@))]
                 /\ seed_pc' = "completed"
                 /\ UNCHANGED <<seed_error, count_users, count_products,
                                users_list, products_list>>
              \/ Caught("commit")
    /\ UNCHANGED <<gvars, mvars, avars, lifespan_pc>>

\* generate_initial_data returns to lifespan: after the early return, after
\* the last helper, or after the except block; finally closes the session.
\* lifespan goes on to log "Initial data populated.".
ReturnToLifespan ==
    /\ seed_pc \in {"skipped", "completed", "caught"}
    /\ seed_pc' = "returned"
    /\ lifespan_pc' = "populated"
    /\ UNCHANGED <<db, seed_error, count_users, count_products, users_list,
                   products_list>>
    /\ UNCHANGED <<gvars, mvars, avars>>

NextSeed ==
    \/ CheckExisting
    \/ create_fake_users
    \/ create_fake_products
    \/ create_fake_orders
    \/ create_fake_reviews
    \/ ReturnToLifespan

SpecSeed == SeedInit /\ [][NextSeed]_vars

\* ============================================================== main.py
\* Product and user ids a request may name: 1 is stored, 2 is not.
ProductIds == {1, 2}
UserIds == {1, 2}
\* An optional value (a cache entry, a loaded row, an unset field) is a
\* sequence of length 0 or 1.
Absent == <<>>
Some(x) == <<x>>

\* schemas.Product.model_validate(row): the fields of the response schema
\* (the row's updated_at is not among them).
Product(row) == [id |-> row.id, price |-> row.price, stock |-> row.stock]
\* select(models.X).where(models.X.id == id): the row, if any
RowOf(table, id) ==
    IF \E k \in 1..Len(table) : table[k].id = id
    THEN Some(table[CHOOSE k \in 1..Len(table) : table[k].id = id])
    ELSE Absent
\* UPDATE of a row: only the columns whose value changed are written, and
\* onupdate sets updated_at when a statement is sent.
WriteRow(table, loaded, pending) ==
    [k \in 1..Len(table) |->
        IF table[k].id = loaded.id /\ pending # loaded
        THEN [id |-> table[k].id,
              price |-> IF pending.price # loaded.price THEN pending.price
                        ELSE table[k].price,
              stock |-> IF pending.stock # loaded.stock THEN pending.stock
                        ELSE table[k].stock,
              updated_at |-> table[k].updated_at + 1]
        ELSE table[k]]

\* A read_product that does not store the row it read.
redis_setNothing(c, id, value) == c
\* r.set(f"product:{id}", value, ex=600)
redis_set(c, id, value) == [c EXCEPT !.product[id] = Some(value)]
\* r.delete(f"product:{id}")
redis_delete(c, id) == [c EXCEPT !.product[id] = Absent]

\* The calls a client can make.  update_product carries the fields that
\* are set (exclude_unset).
Calls ==
    {[handler |-> "read_product", product_id |-> p, user_id |-> 0, quantity |-> 0,
      price |-> Absent, stock |-> Absent] : p \in ProductIds}
    \cup {[handler |-> "read_products", product_id |-> 0, user_id |-> 0,
           quantity |-> 0, price |-> Absent, stock |-> Absent]}
    \cup {[handler |-> "update_product", product_id |-> p, user_id |-> 0,
           quantity |-> 0, price |-> pr, stock |-> st] :
             p \in ProductIds,
             pr \in {Absent} \cup {Some(x) : x \in 1..MaxPrice},
             st \in {Absent} \cup {Some(x) : x \in 0..MaxStock}}
    \cup {[handler |-> "create_order", product_id |-> p, user_id |-> u,
           quantity |-> q, price |-> Absent, stock |-> Absent] :
             p \in ProductIds, u \in UserIds, q \in 1..MaxQuantity}
FirstStep(handler) ==
    CASE handler = "read_product" -> "get"
      [] handler = "read_products" -> "get"
      [] handler = "update_product" -> "select"
      [] handler = "create_order" -> "select_user"

\* The application has started: lifespan has returned from the seeder; the
\* tables hold one user and one product, the cache is empty.
ApiInit ==
    /\ GeneratorIdle
    /\ MapperIdle
    /\ \E pr \in 1..MaxPrice, st \in 0..MaxStock :
         db = [users |-> <<[id |-> 1, email |-> 1]>>,
               products |-> <<[id |-> 1, price |-> pr, stock |-> st,
                               updated_at |-> 0]>>,
               orders |-> <<>>, reviews |-> <<>>]
    /\ seed_pc = "returned"
    /\ seed_error = "none"
    /\ count_users = 0
    /\ count_products = 0
    /\ users_list = <<>>
    /\ products_list = <<>>
    /\ lifespan_pc = "serving"
    /\ cache = [product |-> [p \in ProductIds |-> Absent], all_products |-> Absent]
    /\ requests = <<>>

\* What a handler's step leaves alone besides db, cache and requests.
ApiFrame ==
    /\ UNCHANGED <<seed_pc, seed_error, count_users, count_products, users_list,
                   products_list, lifespan_pc>>
    /\ UNCHANGED <<gvars, mvars>>
\* The request goes from one await to the next.
Goto(i, step) == requests' = [requests EXCEPT ![i].pc = step]
\* The handler keeps the row it loaded and its pending changes.
Load(i, row, pending, step) ==
    requests' = [requests EXCEPT ![i].pc = step, ![i].loaded = Some(row),
                                 ![i].pending = Some(pending)]
\* The handler returns or raises HTTPException: the response is sent.
Respond(i, status, body) ==
    requests' = [requests EXCEPT ![i].pc = "done", ![i].status = status,
                                 ![i].body = body]
InFlight(i) == requests[i].pc # "done"

\* A request arrives and its handler is entered.
Receive ==
    /\ Len(requests) < MaxRequests
    /\ \E c \in Calls :
         requests' = Append(requests,
                            [call |-> c, pc |-> FirstStep(c.handler),
                             loaded |-> Absent, pending |-> Absent,
                             status |-> 0, body |-> Absent])
    /\ UNCHANGED <<db, cache>>
    /\ ApiFrame

\* read_product: cached_product = await r.get(cache_key)
read_product_get(i) ==
    /\ requests[i].call.handler = "read_product" /\ requests[i].pc = "get"
    /\ LET cached_product == cache.product[requests[i].call.product_id]
       IN IF cached_product # Absent
          THEN Respond(i, 200, cached_product)
          ELSE Goto(i, "select")
    /\ UNCHANGED <<db, cache>>
    /\ ApiFrame
\* read_product: the select, and the 404 when there is no row
read_product_select(i) ==
    /\ requests[i].call.handler = "read_product" /\ requests[i].pc = "select"
    /\ LET db_product == RowOf(db.products, requests[i].call.product_id)
       IN IF db_product = Absent
          THEN Respond(i, 404, Absent)
          ELSE Load(i, db_product[1], db_product[1], "set")
    /\ UNCHANGED <<db, cache>>
    /\ ApiFrame
\* read_product: await r.set(cache_key, ..., ex=600); return db_product
read_product_set(i) ==
    /\ requests[i].call.handler = "read_product" /\ requests[i].pc = "set"
    /\ cache' = redis_set(cache, requests[i].call.product_id,
                          Product(requests[i].loaded[1]))
    /\ Respond(i, 200, Some(Product(requests[i].loaded[1])))
    /\ UNCHANGED db
    /\ ApiFrame

\* read_products without filters: cached_products = await r.get("all_products")
read_products_get(i) ==
    /\ requests[i].call.handler = "read_products" /\ requests[i].pc = "get"
    /\ IF cache.all_products # Absent
       THEN Respond(i, 200, cache.all_products)
       ELSE Goto(i, "select")
    /\ UNCHANGED <<db, cache>>
    /\ ApiFrame
\* read_products: the select over the table
read_products_select(i) ==
    /\ requests[i].call.handler = "read_products" /\ requests[i].pc = "select"
    /\ LET products == [k \in 1..Len(db.products) |-> Product(db.products[k])]
       IN IF products = <<>>
          THEN Respond(i, 200, Some(products))
          ELSE Load(i, products, products, "set")
    /\ UNCHANGED <<db, cache>>
    /\ ApiFrame
\* read_products: the pipeline that stores the list under "all_products"
read_products_set(i) ==
    /\ requests[i].call.handler = "read_products" /\ requests[i].pc = "set"
    /\ cache' = [cache EXCEPT !.all_products = requests[i].loaded]
    /\ Respond(i, 200, requests[i].loaded)
    /\ UNCHANGED db
    /\ ApiFrame

\* update_product: the select, the 404, and the setattr loop
update_product_select(i) ==
    /\ requests[i].call.handler = "update_product" /\ requests[i].pc = "select"
    /\ LET c == requests[i].call
           db_product == RowOf(db.products, c.product_id)
       IN IF db_product = Absent
          THEN Respond(i, 404, Absent)
          ELSE Load(i, db_product[1],
                    [db_product[1] EXCEPT
                       !.price = IF c.price = Absent THEN @ ELSE c.price[1],
                       !.stock = IF c.stock = Absent THEN @ ELSE c.stock[1]],
                    "commit")
    /\ UNCHANGED <<db, cache>>
    /\ ApiFrame
\* update_product: await db.commit()
update_product_commit(i) ==
    /\ requests[i].call.handler = "update_product" /\ requests[i].pc = "commit"
    /\ db' = [db EXCEPT !.products = WriteRow(@, requests[i].loaded[1],
                                              requests[i].pending[1])]
    /\ Goto(i, "refresh")
    /\ UNCHANGED cache
    /\ ApiFrame
\* update_product: await db.refresh(db_product)
update_product_refresh(i) ==
    /\ requests[i].call.handler = "update_product" /\ requests[i].pc = "refresh"
    /\ LET row == RowOf(db.products, requests[i].call.product_id)[1]
       IN Load(i, row, row, "delete_product")
    /\ UNCHANGED <<db, cache>>
    /\ ApiFrame
\* update_product: await r.delete(f"product:{product_id}")
update_product_delete(i) ==
    /\ requests[i].call.handler = "update_product"
    /\ requests[i].pc = "delete_product"
    /\ cache' = redis_delete(cache, requests[i].call.product_id)
    /\ Goto(i, "delete_all")
    /\ UNCHANGED db
    /\ ApiFrame
\* update_product: await r.delete("all_products"); return db_product
update_product_delete_all(i) ==
    /\ requests[i].call.handler = "update_product" /\ requests[i].pc = "delete_all"
    /\ cache' = [cache EXCEPT !.all_products = Absent]
    /\ Respond(i, 200, Some(Product(requests[i].loaded[1])))
    /\ UNCHANGED db
    /\ ApiFrame

\* create_order: the select of the user and its 404
create_order_user(i) ==
    /\ requests[i].call.handler = "create_order" /\ requests[i].pc = "select_user"
    /\ IF RowOf(db.users, requests[i].call.user_id) = Absent
       THEN Respond(i, 404, Absent)
       ELSE Goto(i, "select_product")
    /\ UNCHANGED <<db, cache>>
    /\ ApiFrame
\* create_order: the select of the product, its 404, the stock check and
\* its 400; then the order is added and db_product.stock -= quantity
create_order_product(i) ==
    /\ requests[i].call.handler = "create_order"
    /\ requests[i].pc = "select_product"
    /\ LET c == requests[i].call
           db_product == RowOf(db.products, c.product_id)
       IN IF db_product = Absent
          THEN Respond(i, 404, Absent)
          ELSE IF db_product[1].stock < c.quantity
          THEN Respond(i, 400, Absent)
          ELSE Load(i, db_product[1],
                    [db_product[1] EXCEPT !.stock = @ - c.quantity], "commit")
    /\ UNCHANGED <<db, cache>>
    /\ ApiFrame
\* The order row create_order adds for the product it loaded.
NewOrder(c, db_product, id) ==
    [id |-> id, user_id |-> c.user_id, product_id |-> c.product_id,
     quantity |-> c.quantity, total_price |-> db_product.price * c.quantity]
\* create_order: await db.commit(): the INSERT of the order and the UPDATE
\* of the product's stock
create_order_commit(i) ==
    /\ requests[i].call.handler = "create_order" /\ requests[i].pc = "commit"
    /\ LET db_order == NewOrder(requests[i].call, requests[i].loaded[1],
                                Len(db.orders) + 1)
       IN /\ db' = [db EXCEPT
                      !.orders = Append(@, db_order),
                      !.products = WriteRow(@, requests[i].loaded[1],
                                            requests[i].pending[1])]
          /\ Load(i, db_order, db_order, "refresh")
    /\ UNCHANGED cache
    /\ ApiFrame
\* create_order: await db.refresh(db_order); return db_order
create_order_refresh(i) ==
    /\ requests[i].call.handler = "create_order" /\ requests[i].pc = "refresh"
    /\ Respond(i, 201, RowOf(db.orders, requests[i].loaded[1].id))
    /\ UNCHANGED <<db, cache>>
    /\ ApiFrame

\* A cache entry reaches the end of its 600 seconds.
Expire ==
    /\ \/ \E p \in ProductIds :
            /\ cache.product[p] # Absent
            /\ cache' = redis_delete(cache, p)
       \/ /\ cache.all_products # Absent
          /\ cache' = [cache EXCEPT !.all_products = Absent]
    /\ UNCHANGED <<db, requests>>
    /\ ApiFrame

Step(i) ==
    \/ read_product_get(i)
    \/ read_product_select(i)
    \/ read_product_set(i)
    \/ read_products_get(i)
    \/ read_products_select(i)
    \/ read_products_set(i)
    \/ update_product_select(i)
    \/ update_product_commit(i)
    \/ update_product_refresh(i)
    \/ update_product_delete(i)
    \/ update_product_delete_all(i)
    \/ create_order_user(i)
    \/ create_order_product(i)
    \/ create_order_commit(i)
    \/ create_order_refresh(i)

NextApi ==
    \/ Receive
    \/ \E i \in 1..Len(requests) : Step(i)
    \/ Expire

SpecApi == ApiInit /\ [][NextApi]_vars

\* ------------------------------------------------------- create_review
\* A request as its handler is entered.
NewRequest(c, step) ==
    [call |-> c, pc |-> step, loaded |-> Absent, pending |-> Absent,
     status |-> 0, body |-> Absent]
\* The create_review calls a client can make.  The rating is between 1 and
\* 5 when the handler runs (ReviewCreate: conint(ge=1, le=5)), so the
\* handler's own rating test never fails.
ReviewCalls ==
    {[handler |-> "create_review", product_id |-> p, user_id |-> u,
      quantity |-> 0, price |-> Absent, stock |-> Absent] :
        p \in ProductIds, u \in UserIds}

\* A create_review request arrives.
ReceiveReview ==
    /\ Len(requests) < MaxRequests
    /\ \E c \in ReviewCalls :
         requests' = Append(requests, NewRequest(c, "select_user"))
    /\ UNCHANGED <<db, cache>>
    /\ ApiFrame

\* The reviews a user has written for a product.
ReviewsOf(table, user_id, product_id) ==
    {k \in 1..Len(table) :
        table[k].user_id = user_id /\ table[k].product_id = product_id}

\* create_review: the select of the user and its 404
create_review_user(i) ==
    /\ requests[i].call.handler = "create_review" /\ requests[i].pc = "select_user"
    /\ IF RowOf(db.users, requests[i].call.user_id) = Absent
       THEN Respond(i, 404, Absent)
       ELSE Goto(i, "select_product")
    /\ UNCHANGED <<db, cache>>
    /\ ApiFrame
\* create_review: the select of the product and its 404
create_review_product(i) ==
    /\ requests[i].call.handler = "create_review"
    /\ requests[i].pc = "select_product"
    /\ IF RowOf(db.products, requests[i].call.product_id) = Absent
       THEN Respond(i, 404, Absent)
       ELSE Goto(i, "select_review")
    /\ UNCHANGED <<db, cache>>
    /\ ApiFrame
\* create_review: the select of an existing review of the pair and its
\* 400; then the review is added to the session
create_review_existing(i) ==
    /\ requests[i].call.handler = "create_review"
    /\ requests[i].pc = "select_review"
    /\ IF ReviewsOf(db.reviews, requests[i].call.user_id,
                    requests[i].call.product_id) # {}
       THEN Respond(i, 400, Absent)
       ELSE Goto(i, "commit")
    /\ UNCHANGED <<db, cache>>
    /\ ApiFrame
\* create_review: await db.commit(): the INSERT.  The reviews table has no
\* unique constraint on (user_id, product_id) (models.py: commented out).
create_review_commit(i) ==
    /\ requests[i].call.handler = "create_review" /\ requests[i].pc = "commit"
    /\ LET db_review == [id |-> Len(db.reviews) + 1,
                         user_id |-> requests[i].call.user_id,
                         product_id |-> requests[i].call.product_id]
       IN /\ db' = [db EXCEPT !.reviews = Append(@, db_review)]
          /\ Load(i, db_review, db_review, "refresh")
    /\ UNCHANGED cache
    /\ ApiFrame
\* create_review: await db.refresh(db_review); return db_review
create_review_refresh(i) ==
    /\ requests[i].call.handler = "create_review" /\ requests[i].pc = "refresh"
    /\ Respond(i, 201, RowOf(db.reviews, requests[i].loaded[1].id))
    /\ UNCHANGED <<db, cache>>
    /\ ApiFrame

ReviewStep(i) ==
    \/ create_review_user(i)
    \/ create_review_product(i)
    \/ create_review_existing(i)
    \/ create_review_commit(i)
    \/ create_review_refresh(i)

NextReviews ==
    \/ ReceiveReview
    \/ \E i \in 1..Len(requests) : ReviewStep(i)

SpecReviews == ApiInit /\ [][NextReviews]_vars

\* ------------------------------------------- create_user and update_user
\* The email addresses a client can send.
Addresses == 1..MaxEmail
UserCalls ==
    {[handler |-> "create_user", user_id |-> 0, email |-> Some(e)] :
        e \in Addresses}
    \cup {[handler |-> "update_user", user_id |-> u, email |-> e] :
            u \in UserIds, e \in {Absent} \cup {Some(a) : a \in Addresses}}

\* The service with two registered users.
UsersInit ==
    /\ GeneratorIdle
    /\ MapperIdle
    /\ db = [users |-> <<[id |-> 1, email |-> 1], [id |-> 2, email |-> 2]>>,
             products |-> <<>>, orders |-> <<>>, reviews |-> <<>>]
    /\ seed_pc = "returned"
    /\ seed_error = "none"
    /\ count_users = 0
    /\ count_products = 0
    /\ users_list = <<>>
    /\ products_list = <<>>
    /\ lifespan_pc = "serving"
    /\ cache = [product |-> [p \in ProductIds |-> Absent], all_products |-> Absent]
    /\ requests = <<>>

ReceiveUser ==
    /\ Len(requests) < MaxRequests
    /\ \E c \in UserCalls : requests' = Append(requests, NewRequest(c, "select"))
    /\ UNCHANGED <<db, cache>>
    /\ ApiFrame

\* The rows of the users table that hold an email, besides the row `id`.
HoldersOf(table, email, id) ==
    {k \in 1..Len(table) : table[k].email = email /\ table[k].id # id}
\* The unique index on users.email (models.User.email: unique=True): a
\* statement that would store the email a second time is refused.
UniqueViolationNever(table, email, id) == FALSE
UniqueViolation(table, email, id) == HoldersOf(table, email, id) # {}

\* create_user: the select by email and its 400; then the user is added
\* to the session
create_user_select(i) ==
    /\ requests[i].call.handler = "create_user" /\ requests[i].pc = "select"
    /\ IF HoldersOf(db.users, requests[i].call.email[1], 0) # {}
       THEN Respond(i, 400, Absent)
       ELSE Goto(i, "commit")
    /\ UNCHANGED <<db, cache>>
    /\ ApiFrame
\* create_user: await db.commit(): the INSERT.  An IntegrityError leaves
\* the handler, get_async_session rolls back and the client gets a 500.
create_user_commit(i) ==
    /\ requests[i].call.handler = "create_user" /\ requests[i].pc = "commit"
    /\ LET db_user == [id |-> Len(db.users) + 1,
                       email |-> requests[i].call.email[1]]
       IN IF UniqueViolation(db.users, db_user.email, db_user.id)
          THEN /\ Respond(i, 500, Absent)
               /\ UNCHANGED db
          ELSE /\ db' = [db EXCEPT !.users = Append(@, db_user)]
               /\ Load(i, db_user, db_user, "refresh")
    /\ UNCHANGED cache
    /\ ApiFrame
\* create_user: await db.refresh(db_user); return db_user
create_user_refresh(i) ==
    /\ requests[i].call.handler = "create_user" /\ requests[i].pc = "refresh"
    /\ Respond(i, 201, RowOf(db.users, requests[i].loaded[1].id))
    /\ UNCHANGED <<db, cache>>
    /\ ApiFrame

\* update_user: the select by id and its 404; then the fields the client
\* set are assigned (no lookup of the new email)
update_user_select(i) ==
    /\ requests[i].call.handler = "update_user" /\ requests[i].pc = "select"
    /\ LET db_user == RowOf(db.users, requests[i].call.user_id)
       IN IF db_user = Absent
          THEN Respond(i, 404, Absent)
          ELSE Load(i, db_user[1],
                    IF requests[i].call.email = Absent THEN db_user[1]
                    ELSE [db_user[1] EXCEPT !.email = requests[i].call.email[1]],
                    "commit")
    /\ UNCHANGED <<db, cache>>
    /\ ApiFrame
\* update_user: await db.commit(): the UPDATE of the changed email, or no
\* statement when nothing changed
update_user_commit(i) ==
    /\ requests[i].call.handler = "update_user" /\ requests[i].pc = "commit"
    /\ LET loaded == requests[i].loaded[1]
           pending == requests[i].pending[1]
       IN IF pending = loaded
          THEN /\ Goto(i, "refresh")
               /\ UNCHANGED db
          ELSE IF UniqueViolation(db.users, pending.email, loaded.id)
          THEN /\ Respond(i, 500, Absent)
               /\ UNCHANGED db
          ELSE /\ db' = [db EXCEPT !.users =
                            [k \in 1..Len(@) |->
                                IF @[k].id = loaded.id
                                THEN [@[k] EXCEPT !.email = pending.email]
                                ELSE @[k]]]
               /\ Goto(i, "refresh")
    /\ UNCHANGED cache
    /\ ApiFrame
\* update_user: await db.refresh(db_user); return db_user
update_user_refresh(i) ==
    /\ requests[i].call.handler = "update_user" /\ requests[i].pc = "refresh"
    /\ Respond(i, 200, RowOf(db.users, requests[i].loaded[1].id))
    /\ UNCHANGED <<db, cache>>
    /\ ApiFrame

UserStep(i) ==
    \/ create_user_select(i)
    \/ create_user_commit(i)
    \/ create_user_refresh(i)
    \/ update_user_select(i)
    \/ update_user_commit(i)
    \/ update_user_refresh(i)

NextUsers ==
    \/ ReceiveUser
    \/ \E i \in 1..Len(requests) : UserStep(i)

SpecUsers == UsersInit /\ [][NextUsers]_vars

\* -------------------------------------------------- get_shipping_estimate
\* Money is counted in cents, so that round(cost, 2) is exact.
base_cost == 500
cost_per_kg == 200
cost_per_100km == 100
km_per_day == 500
kg_per_day == 10
error_cost == 9999
error_days == 99
Max(a, b) == IF a > b THEN a ELSE b
\* The requests a client can send: the ZIP code the mock refuses and
\* another one, weights and distances on both sides of a delivery day.
ZipCodes == {"00000", "12345"}
Weights == {1, kg_per_day}
Distances == {100, km_per_day}
ShippingCalls ==
    {[handler |-> "get_shipping_estimate", product_id |-> p,
      destination_zip_code |-> z, weight_kg |-> w, distance_km |-> d] :
        p \in 1..MaxShipped, z \in ZipCodes, w \in Weights, d \in Distances}

ShippingEstimateResponse(request_data, cost, days, carrier) ==
    [product_id |-> request_data.product_id,
     destination_zip_code |-> request_data.destination_zip_code,
     estimated_cost |-> cost, estimated_delivery_days |-> days,
     carrier |-> carrier]

\* shipping_api_mock_app.estimate_shipping: the answers the mock can give.
\* The random factors are taken at the ends of their ranges.
estimate_shipping(request) ==
    {[status_code |-> 500, body |-> Absent]}
    \cup (IF request.destination_zip_code = "00000"
          THEN {[status_code |-> 404, body |-> Absent]}
          ELSE {[status_code |-> 200,
                 body |-> Some(ShippingEstimateResponse(request,
                     base_cost + request.weight_kg * k
                         + (request.distance_km * c) \div 100,
                     Max(1, request.distance_km \div n
                            + request.weight_kg \div kg_per_day + extra),
                     carrier))] :
                 k \in {150, 300}, c \in {80, 150}, n \in {400, 600},
                 extra \in {0, 2}, carrier \in {"ShipFast", "PonyExpressMock"}})
\* What client.post gives: httpx.RequestError when the mock cannot be
\* reached, or the mock's answer.
PostOutcomes(request) ==
    {[status_code |-> 0, body |-> Absent]} \cup estimate_shipping(request)

\* The except httpx.RequestError branch.
formula_fallbackNoWeight(request_data) ==
    ShippingEstimateResponse(request_data,
        base_cost + (request_data.distance_km * cost_per_100km) \div 100,
        Max(1, request_data.distance_km \div km_per_day),
        "MockCarrier Express (Fallback)")
formula_fallback(request_data) ==
    ShippingEstimateResponse(request_data,
        base_cost + request_data.weight_kg * cost_per_kg
            + (request_data.distance_km * cost_per_100km) \div 100,
        Max(1, request_data.distance_km \div km_per_day
               + request_data.weight_kg \div kg_per_day),
        "MockCarrier Express (Fallback)")
\* The except httpx.HTTPStatusError branch.
error_fallback(request_data) ==
    ShippingEstimateResponse(request_data, error_cost, error_days,
                             "ErrorCarrier (Fallback)")

ReceiveShipping ==
    /\ Len(requests) < MaxRequests
    /\ \E c \in ShippingCalls : requests' = Append(requests, NewRequest(c, "post"))
    /\ UNCHANGED <<db, cache>>
    /\ ApiFrame
\* get_shipping_estimate: await client.post(...), once
shipping_post(i) ==
    /\ requests[i].call.handler = "get_shipping_estimate"
    /\ requests[i].pc = "post"
    /\ \E outcome \in PostOutcomes(requests[i].call) :
         requests' = [requests EXCEPT ![i].pc = "raise_for_status",
                                      ![i].loaded = Some(outcome)]
    /\ UNCHANGED <<db, cache>>
    /\ ApiFrame
\* get_shipping_estimate: raise_for_status, the return of the mock's
\* estimate, and the two except branches
shipping_respond(i) ==
    /\ requests[i].call.handler = "get_shipping_estimate"
    /\ requests[i].pc = "raise_for_status"
    /\ LET response == requests[i].loaded[1]
       IN IF response.status_code = 0
          THEN Respond(i, 200, Some(formula_fallback(requests[i].call)))
          ELSE IF response.status_code >= 400
          THEN Respond(i, 200, Some(error_fallback(requests[i].call)))
          ELSE Respond(i, 200, response.body)
    /\ UNCHANGED <<db, cache>>
    /\ ApiFrame

NextShipping ==
    \/ ReceiveShipping
    \/ \E i \in 1..Len(requests) : shipping_post(i) \/ shipping_respond(i)

SpecShipping == ApiInit /\ [][NextShipping]_vars

\* ------------------------------------------------ create_order by itself
\* The service as it takes orders only: the product starts with MaxStock
\* items and no update_product is called.
OrderCalls == {c \in Calls : c.handler = "create_order"}
OrdersInit ==
    /\ ApiInit
    /\ db.products[1].stock = MaxStock
ReceiveOrder ==
    /\ Len(requests) < MaxRequests
    /\ \E c \in OrderCalls :
         requests' = Append(requests, NewRequest(c, FirstStep(c.handler)))
    /\ UNCHANGED <<db, cache>>
    /\ ApiFrame
OrderStep(i) ==
    \/ create_order_user(i)
    \/ create_order_product(i)
    \/ create_order_commit(i)
    \/ create_order_refresh(i)
NextOrders ==
    \/ ReceiveOrder
    \/ \E i \in 1..Len(requests) : OrderStep(i)

SpecOrders == OrdersInit /\ [][NextOrders]_vars

\* --------------------------------- create_product; one request at a time
ProductCalls ==
    {[handler |-> "create_product", product_id |-> 0, user_id |-> 0,
      quantity |-> 0, price |-> Some(pr), stock |-> Some(st)] :
        pr \in 1..MaxPrice, st \in 0..MaxStock}

\* create_product: db.add(db_product); await db.commit(): the INSERT
create_product_commit(i) ==
    /\ requests[i].call.handler = "create_product" /\ requests[i].pc = "commit"
    /\ LET db_product == [id |-> Len(db.products) + 1,
                          price |-> requests[i].call.price[1],
                          stock |-> requests[i].call.stock[1],
                          updated_at |-> 0]
       IN /\ db' = [db EXCEPT !.products = Append(@, db_product)]
          /\ Load(i, db_product, db_product, "refresh")
    /\ UNCHANGED cache
    /\ ApiFrame
\* create_product: await db.refresh(db_product)
create_product_refresh(i) ==
    /\ requests[i].call.handler = "create_product" /\ requests[i].pc = "refresh"
    /\ Load(i, RowOf(db.products, requests[i].loaded[1].id)[1],
            requests[i].pending[1], "delete_all")
    /\ UNCHANGED <<db, cache>>
    /\ ApiFrame
\* create_product: await r.delete("all_products"); return db_product
create_product_delete_all(i) ==
    /\ requests[i].call.handler = "create_product"
    /\ requests[i].pc = "delete_all"
    /\ cache' = [cache EXCEPT !.all_products = Absent]
    /\ Respond(i, 201, Some(Product(requests[i].loaded[1])))
    /\ UNCHANGED db
    /\ ApiFrame

\* A client that waits for each answer before it sends the next request.
ReceiveSequential ==
    /\ Len(requests) < MaxSequential
    /\ \A i \in 1..Len(requests) : ~InFlight(i)
    /\ \E c \in Calls \cup ProductCalls :
         requests' = Append(requests,
             NewRequest(c, IF c.handler = "create_product" THEN "commit"
                           ELSE FirstStep(c.handler)))
    /\ UNCHANGED <<db, cache>>
    /\ ApiFrame
ProductStep(i) ==
    \/ create_product_commit(i)
    \/ create_product_refresh(i)
    \/ create_product_delete_all(i)
NextSequential ==
    \/ ReceiveSequential
    \/ \E i \in 1..Len(requests) : Step(i) \/ ProductStep(i)
    \/ Expire

SpecSequential == ApiInit /\ [][NextSequential]_vars

\* ------------------------------------------------ the foreign-key graph
\* The table names the foreign keys of a model reference.
Refs(schema, m) ==
    {schema[m][k].target :
        k \in {j \in 1..Len(schema[m]) : schema[m][j].kind = "fk"}}
RECURSIVE Closure(_, _)
\* The models reachable from the set s over foreign keys, s included.
Closure(schema, s) ==
    LET n == s \cup UNION {Refs(schema, m) \cap Models : m \in s}
    IN IF n = s THEN s ELSE Closure(schema, n)
\* The models reachable from m over at least one foreign key.
ReachableFrom(schema, m) == Closure(schema, Refs(schema, m) \cap Models)
Cyclic(schema) == \E m \in Models : m \in ReachableFrom(schema, m)
AllKnown(schema) == \A m \in Models : Refs(schema, m) \subseteq Models
NoRecords == \A m \in Models : created_models[m] = <<>>
\* Positions of the foreign-key columns of a model.
FkColumns(schema, m) == {k \in 1..Len(schema[m]) : schema[m][k].kind = "fk"}
\* The ids of the instances in a pool entry.
PoolIds(pool, m) == {pool[m][j][1] : j \in 1..Len(pool[m])}

\* ---------------------------------------------------------------- claims

\* C1: for an acyclic foreign-key graph whose references are all supplied,
\* create_DAG returns every model at a strictly later position than each
\* model one of its foreign keys references.
DagOrderRespectsForeignKeys ==
    (pc # "start" /\ ~Cyclic(columns) /\ AllKnown(columns)) =>
        /\ error \notin {"circular", "keyerror"}
        /\ \A k \in 1..Len(sorted_models) :
             \A t \in Refs(columns, sorted_models[k].model) :
                \E j \in 1..(k - 1) : sorted_models[j].model = t
        /\ \A m \in Models : \E k \in 1..Len(sorted_models) :
             sorted_models[k].model = m
\* C1 witness: an order was returned in which a model with a foreign key
\* was moved behind a model listed after it in the input.
DagOrderWitness ==
    /\ pc = "done"
    /\ ~Cyclic(columns) /\ AllKnown(columns)
    /\ Refs(columns, 1) = {2, 3}
    /\ Refs(columns, 2) = {3}
    /\ sorted_models[1].model = 3 /\ sorted_models[3].model = 1

\* C2 as stated: a cyclic foreign-key graph makes create_DAG fail with the
\* circular-dependency error and no record is generated.
CycleFailsCircular ==
    (pc # "start" /\ Cyclic(columns)) =>
        (pc = "failed" /\ error = "circular" /\ NoRecords)
\* C2 amended: a cyclic graph makes create_DAG fail, with the circular
\* error when every reference is supplied and otherwise with the circular
\* error or the KeyError of the name lookup; no order is returned and no
\* record is generated.
CycleFailsBeforeGeneration ==
    (pc # "start" /\ Cyclic(columns)) =>
        /\ pc = "failed"
        /\ error \in {"circular", "keyerror"}
        /\ AllKnown(columns) => error = "circular"
        /\ sorted_models = <<>>
        /\ NoRecords
\* C2 witness: a two-model cycle, all references supplied, was rejected.
CycleWitness ==
    /\ pc = "failed" /\ error = "circular"
    /\ AllKnown(columns)
    /\ 2 \in Refs(columns, 1) /\ 1 \in Refs(columns, 2)

\* C3: every record appended to the pool holds, in each foreign-key
\* column, the id of an instance that was in the pool of the referenced
\* model before the record was built.
ForeignKeysReferenceExisting ==
    [][\A m \in Models :
         created_models'[m] # created_models[m] =>
            LET rec == created_models'[m][Len(created_models'[m])]
            IN \A k \in FkColumns(columns, m) :
                 /\ columns[m][k].target \in Models
                 /\ rec[k] \in PoolIds(created_models, columns[m][k].target)]_vars
\* C3 witness: a model with foreign keys to two other models got all its
\* records.
ForeignKeysWitness ==
    /\ pc = "done"
    /\ \E m \in Models :
         /\ Cardinality(Refs(columns, m)) = 2
         /\ Len(created_models[m]) = Amount

\* C4 as stated: a batch stopped by unique-value exhaustion never aborts
\* the run, and every other model reaches the requested count.
ExhaustionNeverAborts ==
    /\ exhausted # {} => pc # "failed"
    /\ pc = "done" =>
         \A m \in Models \ exhausted : Len(created_models[m]) = Amount
\* C4 amended: the batch of X stops with the K records built so far, which
\* are kept, and the run goes on to the next model; every model that does
\* not itself exhaust reaches the requested count; the run is aborted only
\* when K = 0 and a later model has a foreign key to X (ValueError on the
\* empty pool).
ExhaustionStopsOnlyThatModel ==
    /\ [](/\ pc = "done" =>
              \A m \in Models \ exhausted : Len(created_models[m]) = Amount
          /\ \A m \in exhausted : Len(created_models[m]) < Amount
          /\ (exhausted # {} /\ pc = "failed") =>
              /\ error = "valueerror"
              /\ \E x \in exhausted :
                    /\ created_models[x] = <<>>
                    /\ x \in Refs(columns, sorted_models[cur].model))
    /\ [][/\ \A m \in exhausted : created_models'[m] = created_models[m]
          /\ \A m \in exhausted' \ exhausted :
                /\ created_models'[m] = created_models[m]
                /\ pc' = "loop" /\ cur' = cur + 1]_vars
\* C4 witness: X stopped after one record, a model with a foreign key to
\* X got all its records and the run finished.
ExhaustionWitness ==
    /\ pc = "done"
    /\ \E x \in exhausted : \E m \in Models \ exhausted :
         /\ Len(created_models[x]) = 1
         /\ x \in Refs(columns, m)
         /\ Len(created_models[m]) = Amount

\* C5 as stated: no two records of a model hold the same value in a column
\* declared unique, however often generate_model runs for the model.
UniqueColumnsDistinct ==
    \A m \in Models : \A k \in 1..Len(columns[m]) :
        columns[m][k].unique =>
            \A a, b \in 1..Len(created_models[m]) :
                a # b => created_models[m][a][k] # created_models[m][b][k]

\* C6 as stated: a foreign key of a model to itself is accepted by
\* create_DAG, which returns an order.
SelfReferenceAccepted ==
    (pc # "start" /\ AllKnown(columns)
       /\ \A m \in Models : Refs(columns, m) \subseteq {m}) =>
        error # "circular"

\* C7 as stated: when records with a foreign key are to be generated and
\* the list of the referenced records is empty, the run is aborted: it
\* never goes on to the later entities.
EmptyPoolAbortsSeeding ==
    seed_pc \in {"reviews", "completed"} =>
        (users_list # <<>> /\ products_list # <<>>)

\* C8 as stated: a foreign key to a name that is not supplied makes
\* create_DAG fail with the unknown-entity (KeyError) error before any
\* record is generated.
UnknownNameFailsKeyError ==
    (pc # "start" /\ ~AllKnown(columns)) =>
        (pc = "failed" /\ error = "keyerror" /\ NoRecords)
\* C8 amended: such a schema makes create_DAG fail before any record is
\* generated, with the KeyError of the name lookup when the graph is
\* acyclic and otherwise with the KeyError or the circular error,
\* whichever the traversal meets first.
UnknownNameFailsBeforeGeneration ==
    (pc # "start" /\ ~AllKnown(columns)) =>
        /\ pc = "failed"
        /\ error \in {"keyerror", "circular"}
        /\ ~Cyclic(columns) => error = "keyerror"
        /\ sorted_models = <<>>
        /\ NoRecords
\* C8 witness: an acyclic schema with a reference to an unsupplied name,
\* held by the last model visited, was rejected with the KeyError.
UnknownNameWitness ==
    /\ pc = "failed" /\ error = "keyerror"
    /\ ~Cyclic(columns)
    /\ Refs(columns, 1) = {} /\ Refs(columns, 2) = {1}
    /\ Refs(columns, 3) = {UnknownName}

\* C9 as stated: an instance is in the pool only once the transaction that
\* persists it has committed.
PoolOnlyAfterCommit ==
    \A m \in Models : \A k \in 1..Len(created_models[m]) :
        created_models[m][k] \in persisted[m]

\* C10 as stated: the value a record holds in a foreign-key column is an
\* identity the store assigned to a persisted row of the referenced model.
ForeignKeysAreStoreIdentities ==
    \A m \in Models : \A k \in FkColumns(columns, m) :
        \A a \in 1..Len(created_models[m]) :
            created_models[m][a][k] \in
                {row[1] : row \in persisted[columns[m][k].target]}

\* C11 as stated: after the loop over sorted_models has run a second time
\* in the same process, the pool of every model holds only the records of
\* the second run, so no more than the requested count.
SecondRunPoolHoldsSecondRunOnly ==
    (pc = "done" /\ passes > 1) =>
        \A m \in Models : Len(created_models[m]) <= Amount

\* The model on top of the call stack when create_DAG raised: the model
\* whose dependencies were being followed.
VisitedEntity == dag_state.stack[Len(dag_state.stack)]
\* The first dependency of a model that is not finished.
FirstUnfinished(deps, visited) ==
    deps[CHOOSE k \in 1..Len(deps) :
            /\ deps[k].name \notin visited
            /\ \A j \in 1..(k - 1) : deps[j].name \in visited].name
\* Position of a model in the input list.
InputIndex(m) == CHOOSE k \in 1..Len(AllModels) : AllModels[k] = m

\* C13 as stated: the circular error names the entity being visited, the
\* one whose foreign key was found to reference an entity in progress.
CircularErrorNamesVisitedEntity ==
    error = "circular" => dag_state.err = VisitedEntity
\* C13 amended: create_DAG fails at once with the circular error, which
\* names the referenced entity that is in progress (the entity being
\* visited only when the foreign key is a self-reference); nothing is
\* visited or appended afterwards: the call chain is left as it was, the
\* finished models are exactly the appended ones, and no model listed after
\* the root of the chain was started unless the root reaches it.
CircularErrorNamesReferencedEntity ==
    error = "circular" =>
        /\ pc = "failed" /\ sorted_models = <<>>
        /\ dag_state.stack # <<>>
        /\ dag_state.err \in dag_state.visiting
        /\ dag_state.err =
             FirstUnfinished(dependent_on(columns, VisitedEntity), dag_state.visited)
        /\ (dag_state.err = VisitedEntity) => VisitedEntity \in Refs(columns, VisitedEntity)
        /\ dag_state.visiting = {dag_state.stack[k] : k \in 1..Len(dag_state.stack)}
        /\ dag_state.visited =
             {dag_state.sorted_order[k].model : k \in 1..Len(dag_state.sorted_order)}
        /\ dag_state.visited \cap dag_state.visiting = {}
        /\ \A k \in 1..(Len(dag_state.stack) - 1) :
             dag_state.stack[k + 1] \in Refs(columns, dag_state.stack[k])
        /\ dag_state.visited \cup dag_state.visiting \subseteq
             Closure(columns, {AllModels[j] : j \in 1..InputIndex(dag_state.stack[1])})
\* C13 witness: a cycle through three models was rejected; the error names
\* the first model, the one being visited is the third.
CircularErrorWitness ==
    /\ pc = "failed" /\ error = "circular"
    /\ dag_state.stack = <<1, 2, 3>>
    /\ dag_state.err = 1

\* C14: for an acyclic list whose references are all supplied, the sequence
\* create_DAG returns has the length of the input list, holds no model
\* twice and holds only models of the input list.
DagOrderIsPermutation ==
    (pc # "start" /\ ~Cyclic(columns) /\ AllKnown(columns)) =>
        /\ Len(sorted_models) = Len(AllModels)
        /\ \A a, b \in 1..Len(sorted_models) :
             a # b => sorted_models[a].model # sorted_models[b].model
        /\ \A a \in 1..Len(sorted_models) :
             sorted_models[a].model \in model_names(AllModels)
\* C14 witness: an order was returned for models without any foreign key.
DagOrderUnrelatedWitness ==
    /\ pc = "done"
    /\ \A m \in Models : Refs(columns, m) = {}
    /\ Len(sorted_models) = NumModels

RuleMethods == <<"email", "user_name", "name", "phone_number">>
\* The rule NameCases expects for a column name.
ExpectedRule(name) == (CHOOSE c \in NameCases : c.name = name).rule

\* C16: for a column that is neither a primary key nor autoincrement, the
\* provider method is that of the first name rule in the order email,
\* user_name or username, full_name, phone that the lower-cased name
\* matches; without a match it is the entry of the column type in
\* faker_mapper; without an entry there is no function and the column gets
\* no value.
StrategyByFirstMatchingRule ==
    (map_pc \in {"mapped", "set", "omitted"}
       /\ ~col.primary_key /\ col.autoincrement # "True") =>
        LET rule == ExpectedRule(col.name)
        IN /\ rule # 0 =>
                /\ faker_func.kind = "faker"
                /\ faker_func.method = RuleMethods[rule]
                /\ faker_func.kwargs = {}
           /\ (rule = 0 /\ col.type \in DOMAIN faker_mapper) =>
                /\ faker_func.kind = "faker"
                /\ faker_func.method = faker_mapper[col.type].method_name
                /\ faker_func.kwargs = faker_mapper[col.type].kwargs
           /\ (rule = 0 /\ col.type \notin DOMAIN faker_mapper) =>
                /\ faker_func.kind = "none"
                /\ map_pc # "set"
                /\ data_value = Null
           /\ (map_pc = "set") =>
                data_value.method = faker_func.method
\* C16 witness: a column whose name matches the phone rule and, in upper
\* case, the email rule got a value of the email method.
StrategyWitness ==
    /\ map_pc = "set" /\ col.name = "phone_EMAIL"
    /\ ~col.primary_key /\ col.autoincrement # "True"
    /\ data_value.method = "email"

\* C17 as stated: when the commit of one entity's batch fails during the
\* seeding run, no later entity is generated, the run is not started again
\* and the failure reaches the caller: lifespan does not go on as after a
\* run that succeeded.
CommitFailureSurfaced ==
    seed_error = "commit" =>
        /\ seed_pc \in {"caught", "returned"}
        /\ lifespan_pc # "populated"

\* The requests that take a step.
Stepping == {i \in 1..Len(requests) : requests'[i] # requests[i]}
\* No request is in flight after the step.
QuietAfter == \A j \in 1..Len(requests') : requests'[j].pc = "done"

\* C18 as stated: when update_product(id) completes with success and no
\* other request is in flight, neither the product:{id} entry nor the
\* all_products entry exists.
UpdateLeavesNoCacheEntry ==
    [][\A i \in Stepping :
         (/\ requests[i].call.handler = "update_product"
          /\ requests'[i].pc = "done" /\ requests'[i].status = 200
          /\ QuietAfter) =>
            /\ cache'.product[requests[i].call.product_id] = Absent
            /\ cache'.all_products = Absent]_vars

\* C19: read_product answers a cached entry from the cache step alone;
\* on a miss it selects the row, answers 404 without touching the cache
\* when there is none, and otherwise stores the row's Product under
\* product:{id} and returns it; it never writes to the database.
ReadProductCacheAside ==
    [][\A i \in Stepping :
         requests[i].call.handler = "read_product" =>
            LET id == requests[i].call.product_id
                now == requests[i]
                after == requests'[i]
                row == RowOf(db.products, id)
            IN /\ db' = db
               /\ (now.pc = "get" /\ cache.product[id] # Absent) =>
                     /\ after.pc = "done" /\ after.status = 200
                     /\ after.body = cache.product[id]
                     /\ cache' = cache
               /\ (now.pc = "get" /\ cache.product[id] = Absent) =>
                     /\ after.pc = "select"
                     /\ cache' = cache
               /\ (now.pc = "select" /\ row = Absent) =>
                     /\ after.pc = "done" /\ after.status = 404
                     /\ cache' = cache
               /\ (now.pc = "select" /\ row # Absent) =>
                     /\ after.pc = "set" /\ after.loaded = row
                     /\ cache' = cache
               /\ now.pc = "set" =>
                     /\ after.pc = "done" /\ after.status = 200
                     /\ after.body = Some(Product(now.loaded[1]))
                     /\ cache'.product[id] = after.body
                     /\ \A p \in ProductIds \ {id} :
                          cache'.product[p] = cache.product[p]
                     /\ cache'.all_products = cache.all_products]_vars
\* C19 witness: one read_product missed the cache and stored the row, a
\* second one was answered from the cache.
ReadProductWitness ==
    /\ Len(requests) = 2
    /\ requests[1].call.handler = "read_product" /\ requests[1].status = 200
    /\ requests[1].loaded # Absent
    /\ requests[2].call.handler = "read_product" /\ requests[2].status = 200
    /\ requests[2].loaded = Absent
    /\ requests[2].body = cache.product[1]

\* C20 as stated: create_order answers 404 for a missing user or product
\* and 400 when the stock it finds is below the quantity, and then writes
\* nothing; otherwise its commit adds one order whose total_price is the
\* price it found times the quantity and lowers the product's stock by the
\* quantity.
CreateOrderValidatesThenWrites ==
    [][\A i \in Stepping :
         requests[i].call.handler = "create_order" =>
            LET c == requests[i].call
                now == requests[i]
                after == requests'[i]
                user == RowOf(db.users, c.user_id)
                product == RowOf(db.products, c.product_id)
            IN /\ now.pc # "commit" => db' = db
               /\ now.pc = "select_user" =>
                     IF user = Absent
                     THEN after.pc = "done" /\ after.status = 404
                     ELSE after.pc = "select_product"
               /\ now.pc = "select_product" =>
                     IF product = Absent
                     THEN after.pc = "done" /\ after.status = 404
                     ELSE IF product[1].stock < c.quantity
                     THEN after.pc = "done" /\ after.status = 400
                     ELSE after.pc = "commit"
               /\ now.pc = "commit" =>
                     /\ Len(db'.orders) = Len(db.orders) + 1
                     /\ SubSeq(db'.orders, 1, Len(db.orders)) = db.orders
                     /\ LET order == db'.orders[Len(db'.orders)]
                        IN /\ order.user_id = c.user_id
                           /\ order.product_id = c.product_id
                           /\ order.quantity = c.quantity
                           /\ order.total_price = now.loaded[1].price * c.quantity
                     /\ RowOf(db'.products, c.product_id)[1].stock =
                          product[1].stock - c.quantity]_vars

\* C21 as stated: after any interleaving of create_review requests there is
\* at most one review for each (user_id, product_id) pair, and a request
\* answered 400 has added nothing.
OneReviewPerPair ==
    /\ \A a, b \in 1..Len(db.reviews) :
         (/\ db.reviews[a].user_id = db.reviews[b].user_id
          /\ db.reviews[a].product_id = db.reviews[b].product_id) => a = b
    /\ \A i \in 1..Len(requests) :
         (requests[i].call.handler = "create_review" /\ requests[i].status = 400) =>
            requests[i].loaded = Absent

UniqueEmails ==
    \A a, b \in 1..Len(db.users) :
        db.users[a].email = db.users[b].email => a = b
\* The request i is a create_user that stored no user.
CreateUserRefused(i) ==
    /\ requests[i].call.handler = "create_user"
    /\ requests[i].pc = "done"
    /\ requests[i].loaded = Absent
\* C22 as stated: no two stored users have the same email, and a
\* create_user that is refused because its email is registered is answered
\* 400.
CreateUserRefusedWith400 ==
    /\ UniqueEmails
    /\ \A i \in 1..Len(requests) : CreateUserRefused(i) => requests[i].status = 400
\* C22: no two stored users ever have the same email; a create_user whose
\* lookup finds its email registered is answered 400, and a create_user or
\* update_user whose email was registered by another request after its
\* lookup is refused by the unique index and answered 500; a refused request
\* leaves the users table unchanged.
UserEmailsUnique ==
    [][/\ UniqueEmails'
       /\ \A i \in 1..Len(requests) :
            /\ (/\ requests[i].call.handler = "create_user"
                /\ requests[i].pc = "select"
                /\ requests'[i] # requests[i]
                /\ HoldersOf(db.users, requests[i].call.email[1], 0) # {})
               => requests'[i].status = 400
            /\ (requests[i].status = 0 /\ requests'[i].status \in {400, 404, 500})
               => db'.users = db.users
            /\ (requests[i].status = 0 /\ requests'[i].status = 500)
               => /\ requests[i].pc = "commit"
                  /\ HoldersOf(db.users,
                               IF requests[i].call.handler = "create_user"
                               THEN requests[i].call.email[1]
                               ELSE requests[i].pending[1].email,
                               IF requests[i].call.handler = "create_user"
                               THEN 0 ELSE requests[i].loaded[1].id) # {}]_vars
\* A create_user was answered 400 for a registered email while an update_user
\* to a registered email was refused by the unique index.
UserEmailsWitness ==
    /\ \E i \in 1..Len(requests) :
         CreateUserRefused(i) /\ requests[i].status = 400
    /\ \E i \in 1..Len(requests) :
         requests[i].call.handler = "update_user" /\ requests[i].status = 500

\* The downstream call of the request i failed: the mock was unreachable
\* or answered with an error status.
DownstreamFailed(i) ==
    /\ requests[i].call.handler = "get_shipping_estimate"
    /\ requests[i].pc = "done"
    /\ requests[i].loaded[1].status_code \notin 200..399
Echoes(i) ==
    /\ requests[i].status = 200
    /\ requests[i].body # Absent
    /\ requests[i].body[1].product_id = requests[i].call.product_id
    /\ requests[i].body[1].destination_zip_code =
           requests[i].call.destination_zip_code
FromFormula(i) ==
    /\ requests[i].body[1].estimated_cost =
           base_cost + requests[i].call.weight_kg * cost_per_kg
               + (requests[i].call.distance_km * cost_per_100km) \div 100
    /\ requests[i].body[1].estimated_delivery_days =
           Max(1, requests[i].call.distance_km \div km_per_day
                  + requests[i].call.weight_kg \div kg_per_day)
\* C23 as stated: whenever the downstream call failed (unreachable or error
\* status) the answer is a 200 echoing product_id and destination_zip_code
\* whose cost and delivery days come from the formula over weight and
\* distance.
FailureAnsweredFromFormula ==
    \A i \in 1..Len(requests) : DownstreamFailed(i) => Echoes(i) /\ FromFormula(i)
\* C23: the downstream call is made once and a failure is never answered
\* with an error: the answer is a 200 echoing product_id and
\* destination_zip_code; when the mock was unreachable its cost and delivery
\* days come from the formula over weight and distance, and when the mock
\* answered with an error status they are the fixed 99.99 and 99 days.
FailureAnsweredByFallback ==
    [][\A i \in 1..Len(requests) :
         /\ (requests[i].call.handler = "get_shipping_estimate"
             /\ requests[i].pc = "raise_for_status")
            => requests'[i].pc \in {"raise_for_status", "done"}
         /\ DownstreamFailed(i)' =>
              /\ Echoes(i)'
              /\ IF requests'[i].loaded[1].status_code = 0
                 THEN FromFormula(i)'
                 ELSE /\ requests'[i].body[1].estimated_cost = error_cost
                      /\ requests'[i].body[1].estimated_delivery_days = error_days]_vars
\* One request was answered after the mock could not be reached and another
\* after the mock answered with an error status; the first weighs enough to
\* add a delivery day.
FallbackWitness ==
    \E i, j \in 1..Len(requests) :
        /\ DownstreamFailed(i) /\ requests[i].loaded[1].status_code = 0
        /\ requests[i].call.weight_kg = kg_per_day
        /\ DownstreamFailed(j) /\ requests[j].loaded[1].status_code = 404

\* C24 as stated: when the users, products, orders or reviews table holds a
\* row as startup begins, startup inserts no records.
SeedOnlyIntoEmptyTables ==
    [][/\ (/\ seed_pc = "check"
           /\ \/ db.users # <<>>
              \/ db.products # <<>>
              \/ db.orders # <<>>
              \/ db.reviews # <<>>)
          => (seed_pc' = "skipped" /\ db' = db)
       /\ seed_pc = "skipped" => db' = db]_vars

\* The items of a product that the stored orders have sold.
RECURSIVE Sold(_, _)
Sold(orders, product_id) ==
    IF orders = <<>> THEN 0
    ELSE (IF Head(orders).product_id = product_id THEN Head(orders).quantity
          ELSE 0) + Sold(Tail(orders), product_id)
\* C25 as stated: starting from stock MaxStock and with no update_product,
\* after any interleaving of create_order requests the quantities of the
\* product's orders plus its current stock equal the initial stock.
StockNeverOversold ==
    \A k \in 1..Len(db.products) :
        Sold(db.orders, db.products[k].id) + db.products[k].stock = MaxStock

\* C26 as stated: with requests executed one after the other, whenever no
\* request is in flight an existing 'product:{id}' cache entry equals the
\* product's current row, stock included.
CacheEntryEqualsRow ==
    (\A i \in 1..Len(requests) : ~InFlight(i)) =>
        \A p \in ProductIds :
            cache.product[p] # Absent =>
                /\ RowOf(db.products, p) # Absent
                /\ cache.product[p][1] = Product(RowOf(db.products, p)[1])

\* C27 as stated: once a read_product and an update_product of the same
\* product, run in any interleaving, have both completed, the
\* 'product:{id}' entry is absent or equals the committed post-update row.
RaceLeavesNoStaleEntry ==
    \A i, j \in 1..Len(requests) :
        (/\ Len(requests) = 2
         /\ requests[i].call.handler = "read_product"
         /\ requests[j].call.handler = "update_product"
         /\ requests[i].call.product_id = requests[j].call.product_id
         /\ ~InFlight(i) /\ ~InFlight(j)
         /\ requests[j].status = 200) =>
            \/ cache.product[requests[j].call.product_id] = Absent
            \/ cache.product[requests[j].call.product_id][1] =
                   Product(RowOf(db.products, requests[j].call.product_id)[1])

====
